---- MODULE Spec2Model ----
(***************************************************************************)
(* The VAE_enhanced module (models/VAE_models/VAE_model_enhanced.py) and   *)
(* the path constants (utilities/directories.py) as a state machine.       *)
(*                                                                         *)
(* A tensor is a record [shape, range, term]:                              *)
(*   shape  <<B, D>>, the batch size and the feature width;                *)
(*   range  what is known of its components: "nan" (some component is      *)
(*          NaN), "unit" (all in [0,1]), "nonneg" (all >= 0), "real";      *)
(*   term   the expression that computed it, over the inputs, the          *)
(*          parameters, the running statistics and the generator draws.    *)
(* Two tensors with the same term are the same value.                      *)
(* A raised exception is a record [error, at].                             *)
(***************************************************************************)
EXTENDS Integers, Sequences, FiniteSets, TLC

VARIABLES vae, generator, calls, directories

vars == <<vae, generator, calls, directories>>

\* input_dim and hidden_dim given to the constructor, and the feature widths
\* of the batches given to forward: 1..MaxDim.
MaxDim == 2
\* latent_dim given to the constructor: 1..MaxLatent.
MaxLatent == 1
\* Batch sizes of inputs: 1..MaxBatch.
MaxBatch == 2
\* Method calls made on the instance.
MaxCalls == 2
\* Parameter updates made by the optimizer.
MaxOptSteps == 1
\* Seeds the caller can give the noise generator.
NumSeeds == 1

Dims == 1..MaxDim

----------------------------------------------------------------------------
(* Tensors and exceptions *)

Tensor(shape, range, term) == [shape |-> shape, range |-> range, term |-> term]

Raise(error, at) == [error |-> error, at |-> at]

IsError(v) == "error" \in DOMAIN v

IsNaN(t) == t.range = "nan"

----------------------------------------------------------------------------
(* torch.nn layers as built by their constructors (torch defaults) *)

Param(init, step) == [init |-> init, step |-> step]

Linear(in_features, out_features) ==
    [kind |-> "Linear", in_features |-> in_features, out_features |-> out_features,
     weight |-> [init |-> "kaiming_uniform", fan_in |-> in_features,
                 fan_out |-> out_features, step |-> 0],
     bias |-> Param("uniform", 0)]

BatchNorm1d(num_features) ==
    [kind |-> "BatchNorm1d", num_features |-> num_features,
     weight |-> Param("ones", 0), bias |-> Param("zeros", 0),
     running_mean |-> [nan |-> FALSE, term |-> [op |-> "zeros"]],
     running_var |-> [nan |-> FALSE, term |-> [op |-> "ones"]],
     num_batches_tracked |-> 0]

ReLU == [kind |-> "ReLU"]

\* p is the rational <<numerator, denominator>>
Dropout(p) == [kind |-> "Dropout", p |-> p]

Sigmoid == [kind |-> "Sigmoid"]

----------------------------------------------------------------------------
(* __init__: the three sub-networks *)

Encoder(input_dim, hidden_dim) ==
    << Linear(input_dim, hidden_dim), BatchNorm1d(hidden_dim), ReLU,
       Linear(hidden_dim, hidden_dim), BatchNorm1d(hidden_dim), ReLU,
       Linear(hidden_dim, hidden_dim), BatchNorm1d(hidden_dim), ReLU,
       Linear(hidden_dim, hidden_dim), BatchNorm1d(hidden_dim), ReLU >>

\* A decoder whose last linear stage keeps the hidden width.
DecoderOutputsHidden(input_dim, hidden_dim, latent_dim) ==
    << Linear(latent_dim, hidden_dim), BatchNorm1d(hidden_dim), ReLU, Dropout(<<1, 10>>),
       Linear(hidden_dim, hidden_dim), BatchNorm1d(hidden_dim), ReLU, Dropout(<<1, 10>>),
       Linear(hidden_dim, hidden_dim), BatchNorm1d(hidden_dim), ReLU, Dropout(<<1, 10>>),
       Linear(hidden_dim, hidden_dim), BatchNorm1d(hidden_dim), ReLU, Dropout(<<1, 10>>),
       Linear(hidden_dim, hidden_dim), Sigmoid >>

\* A decoder that ends at the last linear stage.
DecoderNoSigmoid(input_dim, hidden_dim, latent_dim) ==
    << Linear(latent_dim, hidden_dim), BatchNorm1d(hidden_dim), ReLU, Dropout(<<1, 10>>),
       Linear(hidden_dim, hidden_dim), BatchNorm1d(hidden_dim), ReLU, Dropout(<<1, 10>>),
       Linear(hidden_dim, hidden_dim), BatchNorm1d(hidden_dim), ReLU, Dropout(<<1, 10>>),
       Linear(hidden_dim, hidden_dim), BatchNorm1d(hidden_dim), ReLU, Dropout(<<1, 10>>),
       Linear(hidden_dim, input_dim) >>

Decoder(input_dim, hidden_dim, latent_dim) ==
    << Linear(latent_dim, hidden_dim), BatchNorm1d(hidden_dim), ReLU, Dropout(<<1, 10>>),
       Linear(hidden_dim, hidden_dim), BatchNorm1d(hidden_dim), ReLU, Dropout(<<1, 10>>),
       Linear(hidden_dim, hidden_dim), BatchNorm1d(hidden_dim), ReLU, Dropout(<<1, 10>>),
       Linear(hidden_dim, hidden_dim), BatchNorm1d(hidden_dim), ReLU, Dropout(<<1, 10>>),
       Linear(hidden_dim, input_dim), Sigmoid >>

----------------------------------------------------------------------------
(* _initialize_weights *)

\* nn.init.xavier_uniform_(m.weight); nn.init.constant_(m.bias, 0)
InitLinear(m) ==
    [m EXCEPT !.weight = [@ EXCEPT !.init = "xavier_uniform"],
              !.bias = [@ EXCEPT !.init = "zeros"]]

InitModule(m) == IF m.kind = "Linear" THEN InitLinear(m) ELSE m

InitSequential(layers) == [i \in 1..Len(layers) |-> InitModule(layers[i])]

\* A routine that walks the two Sequential containers only.
InitializeWeightsSequentialsOnly(m) ==
    [m EXCEPT !.encoder = InitSequential(@), !.decoder = InitSequential(@),
              !.init_runs = @ + 1]

\* for m in self.modules(): every sub-module of the instance, at any depth.
\* init_runs counts the runs of this routine on the instance.
InitializeWeights(m) ==
    [m EXCEPT !.encoder = InitSequential(@),
              !.mean_layer = InitModule(@),
              !.logvar_layer = InitModule(@),
              !.decoder = InitSequential(@),
              !.init_runs = @ + 1]

\* The instance when __init__ returns (nn.Module starts in training mode).
NewVAE(input_dim, hidden_dim, latent_dim) ==
    InitializeWeights(
        [constructed |-> TRUE, training |-> TRUE, init_runs |-> 0,
         input_dim |-> input_dim, hidden_dim |-> hidden_dim, latent_dim |-> latent_dim,
         encoder |-> Encoder(input_dim, hidden_dim),
         mean_layer |-> Linear(hidden_dim, latent_dim),
         logvar_layer |-> Linear(hidden_dim, latent_dim),
         decoder |-> Decoder(input_dim, hidden_dim, latent_dim)])

NoInstance == [constructed |-> FALSE]

----------------------------------------------------------------------------
(* The default noise generator: a seeded stream read at an offset *)

Draw(kind, gen) == [op |-> kind, seed |-> gen.seed, offset |-> gen.offset]

Advance(gen) == [gen EXCEPT !.offset = @ + 1]

----------------------------------------------------------------------------
(* Layer evaluation.  Each returns [layer, out, gen]: the layer with its
   buffers as the call leaves them, the output tensor or the exception
   raised, and the generator as the call leaves it. *)

\* F.linear: x @ weight.T + bias
LinearForward(m, x) ==
    IF x.shape[2] # m.in_features
    THEN Raise("RuntimeError", "mat1 and mat2 shapes cannot be multiplied")
    ELSE Tensor(<<x.shape[1], m.out_features>>,
                IF IsNaN(x) THEN "nan" ELSE "real",
                [op |-> "linear", weight |-> m.weight, bias |-> m.bias, arg |-> x.term])

\* running = (1 - momentum) * running + momentum * batch statistic, momentum = 0.1
Ema(running, stat, x) ==
    [nan |-> running.nan \/ IsNaN(x),
     term |-> [op |-> "ema", momentum |-> <<1, 10>>, prev |-> running.term,
               stat |-> [op |-> stat, arg |-> x.term]]]

\* A check that lets every batch through.
VerifyBatchSizeNever(shape) == FALSE

\* F.batch_norm's check in training: "Expected more than 1 value per channel"

VerifyBatchSize(shape) == shape[1] = 1

\* Normalising with the running statistics whatever the mode.
BatchNormOutputRunning(m, x, training) ==
    Tensor(x.shape,
           IF IsNaN(x) \/ m.running_mean.nan \/ m.running_var.nan
           THEN "nan" ELSE "real",
           [op |-> "batch_norm", stats |-> "running",
            mean |-> m.running_mean.term, var |-> m.running_var.term,
            weight |-> m.weight, bias |-> m.bias, arg |-> x.term])

\* torch.batch_norm: batch statistics in training, running statistics otherwise
BatchNormOutput(m, x, training) ==
    IF training
    THEN Tensor(x.shape, IF IsNaN(x) THEN "nan" ELSE "real",
                [op |-> "batch_norm", stats |-> "batch",
                 weight |-> m.weight, bias |-> m.bias, arg |-> x.term])
    ELSE Tensor(x.shape,
                IF IsNaN(x) \/ m.running_mean.nan \/ m.running_var.nan
                THEN "nan" ELSE "real",
                [op |-> "batch_norm", stats |-> "running",
                 mean |-> m.running_mean.term, var |-> m.running_var.term,
                 weight |-> m.weight, bias |-> m.bias, arg |-> x.term])

\* A normalization that writes its running statistics in inference mode too.
BatchNormForwardAlwaysTracks(m, x, training) ==
    IF training /\ VerifyBatchSize(x.shape)
    THEN [layer |-> [m EXCEPT !.num_batches_tracked = @ + 1],
          out |-> Raise("ValueError", "Expected more than 1 value per channel when training")]
    ELSE IF x.shape[2] # m.num_features
    THEN [layer |-> m,
          out |-> Raise("RuntimeError", "running_mean should contain as many elements as channels")]
    ELSE [layer |-> [m EXCEPT !.num_batches_tracked = @ + 1,
                              !.running_mean = Ema(m.running_mean, "batch_mean", x),
                              !.running_var = Ema(m.running_var, "batch_var", x)],
          out |-> BatchNormOutput(m, x, training)]

\* _BatchNorm.forward: num_batches_tracked is advanced before F.batch_norm
\* checks the batch, the running statistics are written by the kernel.
BatchNormForward(m, x, training) ==
    LET counted == IF training
                   THEN [m EXCEPT !.num_batches_tracked = @ + 1]
                   ELSE m
    IN  IF training /\ VerifyBatchSize(x.shape)
        THEN [layer |-> counted,
              out |-> Raise("ValueError", "Expected more than 1 value per channel when training")]
        ELSE IF x.shape[2] # m.num_features
        THEN [layer |-> counted,
              out |-> Raise("RuntimeError", "running_mean should contain as many elements as channels")]
        ELSE [layer |-> IF training
                        THEN [counted EXCEPT
                                !.running_mean = Ema(m.running_mean, "batch_mean", x),
                                !.running_var = Ema(m.running_var, "batch_var", x)]
                        ELSE m,
              out |-> BatchNormOutput(m, x, training)]

ReLUForward(x) ==
    Tensor(x.shape,
           CASE x.range = "nan" -> "nan"
             [] x.range = "unit" -> "unit"
             [] OTHER -> "nonneg",
           [op |-> "relu", arg |-> x.term])

SigmoidForward(x) ==
    Tensor(x.shape, IF IsNaN(x) THEN "nan" ELSE "unit",
           [op |-> "sigmoid", arg |-> x.term])

\* The surviving components are scaled by 1/(1-p), so [0,1] is not kept.
DropoutMasked(m, x, gen) ==
    Tensor(x.shape,
           CASE x.range = "nan" -> "nan"
             [] x.range = "unit" -> "nonneg"
             [] OTHER -> x.range,
           [op |-> "dropout", p |-> m.p, mask |-> Draw("bernoulli", gen), arg |-> x.term])

\* A dropout applied whatever the mode.
DropoutForwardAlways(m, x, training, gen) ==
    [out |-> DropoutMasked(m, x, gen), gen |-> Advance(gen)]

\* F.dropout(input, p, self.training): the identity unless training
DropoutForward(m, x, training, gen) ==
    IF training /\ m.p[1] > 0
    THEN [out |-> DropoutMasked(m, x, gen), gen |-> Advance(gen)]
    ELSE [out |-> x, gen |-> gen]

ApplyLayer(m, x, training, gen) ==
    CASE m.kind = "Linear" ->
            [layer |-> m, out |-> LinearForward(m, x), gen |-> gen]
      [] m.kind = "BatchNorm1d" ->
            LET r == BatchNormForward(m, x, training)
            IN  [layer |-> r.layer, out |-> r.out, gen |-> gen]
      [] m.kind = "ReLU" ->
            [layer |-> m, out |-> ReLUForward(x), gen |-> gen]
      [] m.kind = "Dropout" ->
            LET r == DropoutForward(m, x, training, gen)
            IN  [layer |-> m, out |-> r.out, gen |-> r.gen]
      [] m.kind = "Sigmoid" ->
            [layer |-> m, out |-> SigmoidForward(x), gen |-> gen]

\* The walk through a container after layer i returned r.
Applied(layers, i, r) ==
    [layers |-> [layers EXCEPT ![i] = r.layer], out |-> r.out, gen |-> r.gen]

\* nn.Sequential.forward from layer i on, s the walk so far: each layer on the
\* output of the one before; an exception ends the walk and leaves the
\* earlier layers as changed.
RECURSIVE ApplyFrom(_, _, _)
ApplyFrom(s, i, training) ==
    IF i > Len(s.layers) \/ IsError(s.out)
    THEN s
    ELSE ApplyFrom(Applied(s.layers, i, ApplyLayer(s.layers[i], s.out, training, s.gen)),
                   i + 1, training)

ApplySequential(layers, x, training, gen) ==
    ApplyFrom([layers |-> layers, out |-> x, gen |-> gen], 1, training)

----------------------------------------------------------------------------
(* The methods of VAE_enhanced.  Each returns [vae, out, gen, trace]. *)

\* The two heads on h, the encoder's output.
Heads(m, h) ==
    IF IsError(h)
    THEN h
    ELSE [mean |-> LinearForward(m.mean_layer, h), logvar |-> LinearForward(m.logvar_layer, h)]

\* encode, r what self.encoder(x) returned
EncodeReturn(m, r) ==
    [vae |-> [m EXCEPT !.encoder = r.layers], out |-> Heads(m, r.out), gen |-> r.gen]

\* encode(x): h = self.encoder(x); (self.mean_layer(h), self.logvar_layer(h))
Encode(m, x, gen) == EncodeReturn(m, ApplySequential(m.encoder, x, m.training, gen))

\* Elementwise arithmetic broadcasts: per axis, equal sizes or one of them 1.
BroadcastAxis(a, b) == IF a = b THEN a ELSE IF a = 1 THEN b ELSE IF b = 1 THEN a ELSE 0

Elementwise(op, a, b) ==
    LET shape == <<BroadcastAxis(a.shape[1], b.shape[1]), BroadcastAxis(a.shape[2], b.shape[2])>>
    IN  IF shape[1] = 0 \/ shape[2] = 0
        THEN Raise("RuntimeError", "The size of tensor a must match the size of tensor b")
        ELSE Tensor(shape, IF IsNaN(a) \/ IsNaN(b) THEN "nan" ELSE "real",
                    [op |-> op, a |-> a.term, b |-> b.term])

\* k is the rational <<numerator, denominator>>
Scale(k, a) ==
    Tensor(a.shape, IF IsNaN(a) THEN "nan" ELSE "real",
           [op |-> "scale", k |-> k, arg |-> a.term])

Exp(a) ==
    Tensor(a.shape, IF IsNaN(a) THEN "nan" ELSE "nonneg", [op |-> "exp", arg |-> a.term])

\* torch.randn_like(t): a standard normal draw of t's shape
RandnLike(t, gen) == Tensor(t.shape, "real", Draw("randn", gen))

\* A sampler that returns the mean when the module is not training.
ReparameterizationMeanInEval(m, mean, logvar, gen) ==
    IF m.training
    THEN LET std == Exp(Scale(<<1, 2>>, logvar))
             epsilon == RandnLike(std, gen)
             noise == Elementwise("mul", std, epsilon)
         IN  [out |-> IF IsError(noise) THEN noise ELSE Elementwise("add", mean, noise),
              epsilon |-> epsilon, gen |-> Advance(gen)]
    ELSE [out |-> mean, epsilon |-> mean, gen |-> gen]

\* reparameterization(mean, logvar): std = exp(0.5 * logvar);
\* epsilon = randn_like(std); z = mean + std * epsilon
Reparameterization(m, mean, logvar, gen) ==
    LET std == Exp(Scale(<<1, 2>>, logvar))
        epsilon == RandnLike(std, gen)
        noise == Elementwise("mul", std, epsilon)
    IN  [out |-> IF IsError(noise) THEN noise ELSE Elementwise("add", mean, noise),
         epsilon |-> epsilon, gen |-> Advance(gen)]

\* decode, r what self.decoder(z) returned
DecodeReturn(m, r) == [vae |-> [m EXCEPT !.decoder = r.layers], out |-> r.out, gen |-> r.gen]

\* decode(z): self.decoder(z)
Decode(m, z, gen) == DecodeReturn(m, ApplySequential(m.decoder, z, m.training, gen))

\* trace lists the calls forward made, in order, each with what it was given
\* and what it returned.
EncodeCalled(x, e) == [fn |-> "encode", arg |-> x, ret |-> e.out]

ReparameterizationCalled(e, r) ==
    [fn |-> "reparameterization", arg |-> <<e.out.mean, e.out.logvar>>, ret |-> r.out]

DecodeCalled(z, d) == [fn |-> "decode", arg |-> z, ret |-> d.out]

\* return x_hat, mean, logvar: d is what decode returned when given z
ForwardReturn(x, e, r, z, d) ==
    [vae |-> d.vae,
     out |-> IF IsError(d.out)
             THEN d.out
             ELSE [x_hat |-> d.out, mean |-> e.out.mean, logvar |-> e.out.logvar],
     gen |-> d.gen,
     trace |-> <<EncodeCalled(x, e), ReparameterizationCalled(e, r), DecodeCalled(z, d)>>]

\* A forward pass that decodes the mean instead of the sample.
ForwardDecodeMean(x, e, r) ==
    IF IsError(r.out)
    THEN [vae |-> e.vae, out |-> r.out, gen |-> r.gen,
          trace |-> <<EncodeCalled(x, e), ReparameterizationCalled(e, r)>>]
    ELSE ForwardReturn(x, e, r, e.out.mean, Decode(e.vae, e.out.mean, r.gen))

\* x_hat = self.decode(z), r what reparameterization returned
ForwardDecode(x, e, r) ==
    IF IsError(r.out)
    THEN [vae |-> e.vae, out |-> r.out, gen |-> r.gen,
          trace |-> <<EncodeCalled(x, e), ReparameterizationCalled(e, r)>>]
    ELSE ForwardReturn(x, e, r, r.out, Decode(e.vae, r.out, r.gen))

\* z = self.reparameterization(mean, logvar), e what encode returned
ForwardSample(x, e) ==
    IF IsError(e.out)
    THEN [vae |-> e.vae, out |-> e.out, gen |-> e.gen, trace |-> <<EncodeCalled(x, e)>>]
    ELSE ForwardDecode(x, e, Reparameterization(e.vae, e.out.mean, e.out.logvar, e.gen))

\* forward(x): mean, logvar = self.encode(x); z = self.reparameterization(mean,
\* logvar); x_hat = self.decode(z); return x_hat, mean, logvar.  An exception
\* in one of the calls ends forward.
Forward(m, x, gen) == ForwardSample(x, Encode(m, x, gen))

----------------------------------------------------------------------------
(* What the instance holds *)

\* self.modules(), containers left out: the leaf layers in registration order
Modules(m) == m.encoder \o <<m.mean_layer, m.logvar_layer>> \o m.decoder

HasParams(layer) == "weight" \in DOMAIN layer

\* The parameters an optimizer is given: weight and bias of every Linear,
\* scale (weight) and shift (bias) of every BatchNorm1d.
Learnable(m) ==
    [i \in 1..Len(Modules(m)) |->
        IF HasParams(Modules(m)[i])
        THEN <<Modules(m)[i].weight, Modules(m)[i].bias>>
        ELSE <<>>]

\* The buffers of the normalization layers.
RunningStats(m) ==
    [i \in 1..Len(Modules(m)) |->
        IF Modules(m)[i].kind = "BatchNorm1d"
        THEN <<Modules(m)[i].running_mean, Modules(m)[i].running_var,
               Modules(m)[i].num_batches_tracked>>
        ELSE <<>>]

StepLayer(layer) ==
    IF HasParams(layer)
    THEN [layer EXCEPT !.weight = [@ EXCEPT !.step = @ + 1],
                       !.bias = [@ EXCEPT !.step = @ + 1]]
    ELSE layer

StepSequential(layers) == [i \in 1..Len(layers) |-> StepLayer(layers[i])]

\* Each Linear draws its weight and its bias when built, and its weight again
\* in xavier_uniform_.
InitDraws(m) == 3 * Cardinality({i \in 1..Len(Modules(m)) : Modules(m)[i].kind = "Linear"})

----------------------------------------------------------------------------
(* The inputs callers give *)

Shapes == {<<b, d>> : b \in 1..MaxBatch, d \in Dims}

InputRanges == {"unit", "nan"}

Input(name, shape, range) ==
    Tensor(shape, range, [op |-> "input", name |-> name, shape |-> shape, range |-> range])

\* The record of one method call: the instance as the call found it, what the
\* call was given, what it returned or raised, the calls it made, and the
\* generator before and after.
Entry(method, arg, r) ==
    [method |-> method, self |-> vae, arg |-> arg, out |-> r.out, trace |-> r.trace,
     genBefore |-> generator, genAfter |-> r.gen]

----------------------------------------------------------------------------
(* The path constants module *)

Builtins == {"__name__", "__file__", "__doc__", "__builtins__", "print", "len"}

\* The module body, one assignment per line: the name bound, the names read,
\* and the expression.
DirectoriesBody ==
    << [target |-> "PROJECT_ROOT", reads |-> {"os", "__file__"}, expr |-> "parent_of_dir"],
       [target |-> "TEN_K_DATASET", reads |-> {}, expr |-> "literal",
        value |-> "data/F4_complete_presence_absence.csv"],
       [target |-> "TEN_K_DATASET_PHYLOGROUPS", reads |-> {}, expr |-> "literal",
        value |-> "data/accessionID_phylogroup_BD.csv"],
       [target |-> "TEN_K_DATASET_METADATA", reads |-> {}, expr |-> "literal",
        value |-> "data/metadata_BD.csv"],
       [target |-> "PAPER_ESSENTIAL_GENES", reads |-> {}, expr |-> "literal",
        value |-> "data/essential_genes.csv"],
       [target |-> "ESSENTIAL_GENES_POSITIONS", reads |-> {}, expr |-> "literal",
        value |-> "data/essential_gene_positions.pkl"],
       [target |-> "MINIMIZED_GENOME", reads |-> {}, expr |-> "literal",
        value |-> "data/minimized_genome.fasta"],
       [target |-> "WILD_TYPE_SEQUENCE", reads |-> {}, expr |-> "literal",
        value |-> "sequence.gb"],
       [target |-> "DATA_DIR", reads |-> {"PROJECT_ROOT"}, expr |-> "concat",
        left |-> "PROJECT_ROOT", value |-> "/data/"] >>

\* A path is the sequence of its components.
Dirname(path) == SubSeq(path, 1, Len(path) - 1)

\* os.path.abspath(os.path.join(os.path.dirname(__file__), '..'))
ParentOfDir(file) == Dirname(Dirname(file))

EvalStatement(st, globals, file) ==
    CASE st.expr = "parent_of_dir" -> ParentOfDir(file)
      [] st.expr = "literal" -> st.value
      [] st.expr = "concat" -> <<globals[st.left], st.value>>

\* Running the module body from statement i with the names bound so far
\* (globals, a function from names to values): a name that is neither bound in
\* the module nor a builtin raises NameError and ends the import.
RECURSIVE ExecModule(_, _, _, _)
ExecModule(body, i, globals, file) ==
    IF i > Len(body)
    THEN [status |-> "loaded", globals |-> globals]
    ELSE IF \E n \in body[i].reads : n \notin (DOMAIN globals) \cup Builtins
    THEN [status |-> "NameError",
          name |-> CHOOSE n \in body[i].reads : n \notin (DOMAIN globals) \cup Builtins,
          line |-> i + 1]
    ELSE ExecModule(body, i + 1,
                    [n \in (DOMAIN globals) \cup {body[i].target} |->
                        IF n = body[i].target
                        THEN EvalStatement(body[i], globals, file)
                        ELSE globals[n]],
                    file)

ModuleFiles ==
    { <<"repo", "src", "utilities", "directories.py">>,
      <<"home", "user", "genome_minimizer", "src", "utilities", "directories.py">> }

----------------------------------------------------------------------------
(* The state machine *)

Init ==
    /\ vae = NoInstance
    /\ generator = [seed |-> 1, offset |-> 0]
    /\ calls = <<>>
    /\ directories = [status |-> "unloaded"]

\* The NameError of a failed import, which nothing catches, ends the program.
Alive == directories.status # "NameError"

\* VAE_enhanced(input_dim, hidden_dim, latent_dim)
Construct(input_dim, hidden_dim, latent_dim) ==
    /\ Alive
    /\ ~vae.constructed
    /\ vae' = NewVAE(input_dim, hidden_dim, latent_dim)
    /\ generator' = [generator EXCEPT !.offset = @ + InitDraws(vae')]
    /\ UNCHANGED <<calls, directories>>

\* A caller stops after MaxCalls method calls.
Running == Alive /\ vae.constructed /\ Len(calls) < MaxCalls

\* nn.Module.train()
Train ==
    /\ Running
    /\ vae' = [vae EXCEPT !.training = TRUE]
    /\ UNCHANGED <<generator, calls, directories>>

\* nn.Module.eval()
Eval ==
    /\ Running
    /\ vae' = [vae EXCEPT !.training = FALSE]
    /\ UNCHANGED <<generator, calls, directories>>

\* The external optimizer writes every learnable parameter, after a pass has
\* given it gradients.
OptimizerStep ==
    /\ Running
    /\ calls # <<>>
    /\ vae.mean_layer.weight.step < MaxOptSteps
    /\ vae' = [vae EXCEPT !.encoder = StepSequential(@),
                          !.mean_layer = StepLayer(@),
                          !.logvar_layer = StepLayer(@),
                          !.decoder = StepSequential(@)]
    /\ UNCHANGED <<generator, calls, directories>>

\* The caller fixes the noise: torch.manual_seed(seed)
ManualSeed(seed) ==
    /\ Running
    /\ generator' = [seed |-> seed, offset |-> 0]
    /\ UNCHANGED <<vae, calls, directories>>

\* A call ends with r: the instance and the generator are as the call left
\* them.
Return(method, arg, r) ==
    /\ vae' = r.vae
    /\ generator' = r.gen
    /\ calls' = Append(calls, Entry(method, arg, r))

\* encode and decode, called from outside, make no further calls.
Untraced(r) == [vae |-> r.vae, out |-> r.out, gen |-> r.gen, trace |-> <<>>]

\* model(x)
CallForward(x) ==
    /\ Running
    /\ Return("forward", x, Forward(vae, x, generator))
    /\ UNCHANGED directories

\* model.encode(x), x a batch of the width the model was built for
CallEncode(batch) ==
    /\ Running
    /\ Return("encode", Input("x", <<batch, vae.input_dim>>, "real"),
              Untraced(Encode(vae, Input("x", <<batch, vae.input_dim>>, "real"), generator)))
    /\ UNCHANGED directories

\* model.reparameterization(mean, logvar), both of one shape
CallReparameterization(batch) ==
    /\ Running
    /\ LET mean == Input("mean", <<batch, vae.latent_dim>>, "real")
           logvar == Input("logvar", <<batch, vae.latent_dim>>, "real")
           r == Reparameterization(vae, mean, logvar, generator)
       IN  /\ generator' = r.gen
           /\ calls' = Append(calls, Entry("reparameterization", <<mean, logvar>>,
                                           [out |-> r.out, gen |-> r.gen, trace |-> <<>>]))
    /\ UNCHANGED <<vae, directories>>

\* model.decode(z), z of the width the model was built for
CallDecode(batch) ==
    /\ Running
    /\ Return("decode", Input("z", <<batch, vae.latent_dim>>, "real"),
              Untraced(Decode(vae, Input("z", <<batch, vae.latent_dim>>, "real"), generator)))
    /\ UNCHANGED directories

\* import utilities.directories, the module file being at `file`
ImportDirectories(file) ==
    /\ directories.status = "unloaded"
    /\ directories' = ExecModule(DirectoriesBody, 1, <<>>, file)
    /\ UNCHANGED <<vae, generator, calls>>

Next ==
    \/ \E i \in Dims, h \in Dims, l \in 1..MaxLatent : Construct(i, h, l)
    \/ Train
    \/ Eval
    \/ OptimizerStep
    \/ \E seed \in 1..NumSeeds : ManualSeed(seed)
    \/ \E shape \in Shapes, range \in InputRanges : CallForward(Input("x", shape, range))
    \/ \E batch \in 1..MaxBatch : CallEncode(batch)
    \/ \E batch \in 1..MaxBatch : CallReparameterization(batch)
    \/ \E batch \in 1..MaxBatch : CallDecode(batch)
    \/ \E file \in ModuleFiles : ImportDirectories(file)

Spec == Init /\ [][Next]_vars

----------------------------------------------------------------------------
(* Reading the call log *)

Logged == 1..Len(calls)

Returned(c) == ~IsError(c.out)

IsForward(c) == c.method = "forward"

\* A forward call given a batch of the width the model was built for.
WellShaped(c) == IsForward(c) /\ c.arg.shape[2] = c.self.input_dim

LayerOps == {"linear", "batch_norm", "relu", "dropout", "sigmoid"}

\* The term a chain of layers was applied to.
RECURSIVE ChainInput(_)
ChainInput(t) == IF t.op \in LayerOps THEN ChainInput(t.arg) ELSE t

\* Whether a chain of layers holds a dropout mask.
RECURSIVE HasDropout(_)
HasDropout(t) ==
    IF t.op \in LayerOps THEN t.op = "dropout" \/ HasDropout(t.arg) ELSE FALSE

\* mean + exp(0.5 * logvar) * epsilon, as a term
SampleTerm(mean, logvar, epsilon) ==
    [op |-> "add", a |-> mean.term,
     b |-> [op |-> "mul",
            a |-> [op |-> "exp", arg |-> [op |-> "scale", k |-> <<1, 2>>, arg |-> logvar.term]],
            b |-> epsilon]]

DropoutStages(layers) == {i \in 1..Len(layers) : layers[i].kind = "Dropout"}

NormStages(m) == {i \in 1..Len(Modules(m)) : Modules(m)[i].kind = "BatchNorm1d"}

LinearStages(m) == {i \in 1..Len(Modules(m)) : Modules(m)[i].kind = "Linear"}

\* Some running statistic of the instance holds a NaN.
StatsNaN(m) ==
    \E i \in NormStages(m) :
        Modules(m)[i].running_mean.nan \/ Modules(m)[i].running_var.nan

----------------------------------------------------------------------------
(* C1 *)

\* C1: every forward call given a batch of B >= 2 rows of width input_dim
\* returns, and returns x_hat of shape (B, input_dim), mean and logvar of shape
\* (B, latent_dim), whatever calls came before it on the instance.
C1_ForwardShapes ==
    \A k \in Logged :
        LET c == calls[k] IN
        (WellShaped(c) /\ c.arg.shape[1] >= 2) =>
            /\ Returned(c)
            /\ c.out.x_hat.shape = <<c.arg.shape[1], c.self.input_dim>>
            /\ c.out.mean.shape = <<c.arg.shape[1], c.self.latent_dim>>
            /\ c.out.logvar.shape = <<c.arg.shape[1], c.self.latent_dim>>

\* A second forward call in a row has returned, on a model whose three
\* dimensions are not all equal.
C1_Witness ==
    /\ Len(calls) = 2
    /\ \A k \in Logged : WellShaped(calls[k]) /\ calls[k].arg.shape[1] >= 2 /\ Returned(calls[k])
    /\ vae.input_dim # vae.hidden_dim
    /\ vae.latent_dim # vae.input_dim

----------------------------------------------------------------------------
(* C2 *)

\* C2 as stated: no method call changes a weight, a bias, a scale, a shift or
\* a running statistic.
C2_MethodsChangeNothing ==
    [][Len(calls') > Len(calls) =>
         /\ Learnable(vae') = Learnable(vae)
         /\ RunningStats(vae') = RunningStats(vae)]_vars

\* C2 amended: no method call changes a learnable parameter (weight, bias,
\* scale, shift); a call in inference mode changes no running statistic
\* either, while a forward or encode call in training mode on a batch of the
\* model's width advances the first normalization layer's num_batches_tracked
\* and, the batch having more than one row, rewrites its running_mean and
\* running_var.
C2_MethodsKeepParameters ==
    [][Len(calls') > Len(calls) =>
         /\ Learnable(vae') = Learnable(vae)
         /\ vae'.training = vae.training
         /\ ~vae.training => RunningStats(vae') = RunningStats(vae)
         /\ (vae.training /\ calls'[Len(calls')].method \in {"forward", "encode"}
               /\ calls'[Len(calls')].arg.shape[2] = vae.input_dim)
              => /\ vae'.encoder[2].num_batches_tracked = vae.encoder[2].num_batches_tracked + 1
                 /\ calls'[Len(calls')].arg.shape[1] > 1
                      => /\ vae'.encoder[2].running_mean # vae.encoder[2].running_mean
                         /\ vae'.encoder[2].running_var # vae.encoder[2].running_var]_vars

\* A training-mode forward has written the running statistics and an
\* inference-mode forward after it has returned.
C2_Witness ==
    /\ Len(calls) = 2
    /\ IsForward(calls[1]) /\ calls[1].self.training /\ Returned(calls[1])
    /\ IsForward(calls[2]) /\ ~calls[2].self.training /\ Returned(calls[2])
    /\ RunningStats(calls[2].self) # RunningStats(calls[1].self)
    /\ RunningStats(vae) = RunningStats(calls[2].self)

----------------------------------------------------------------------------
(* C3 *)

\* C3: a forward call in training mode on a batch of one row raises, and when
\* the row has the model's width what it raises is the normalization layer's
\* ValueError; no triple is returned.
C3_SingleRowTrainingRaises ==
    \A k \in Logged :
        LET c == calls[k] IN
        (IsForward(c) /\ c.self.training /\ c.arg.shape[1] = 1) =>
            /\ IsError(c.out)
            /\ WellShaped(c) => c.out.error = "ValueError"

\* A training-mode forward on one row of the right width has raised.
C3_Witness ==
    \E k \in Logged :
        /\ WellShaped(calls[k]) /\ calls[k].self.training /\ calls[k].arg.shape[1] = 1
        /\ IsError(calls[k].out)

----------------------------------------------------------------------------
(* C4 *)

\* C4: forward calls encode on x, then reparameterization on the pair encode
\* returned, then decode on the z reparameterization returned, each once; the
\* triple holds decode's result and encode's pair; z is built on the noise
\* drawn at this call's generator position.
C4_ForwardOrder ==
    \A k \in Logged :
        LET c == calls[k]
            t == c.trace
        IN  IsForward(c) =>
            /\ Len(t) >= 1 /\ t[1].fn = "encode" /\ t[1].arg = c.arg
            /\ IsError(t[1].ret) => (Len(t) = 1 /\ c.out = t[1].ret)
            /\ ~IsError(t[1].ret) =>
                 /\ Len(t) = 3
                 /\ t[2].fn = "reparameterization"
                 /\ t[2].arg = <<t[1].ret.mean, t[1].ret.logvar>>
                 /\ t[2].ret.term = SampleTerm(t[1].ret.mean, t[1].ret.logvar,
                                               Draw("randn", c.genBefore))
                 /\ t[3].fn = "decode"
                 /\ t[3].arg = t[2].ret
                 /\ c.out = [x_hat |-> t[3].ret, mean |-> t[1].ret.mean,
                             logvar |-> t[1].ret.logvar]
                 /\ ChainInput(c.out.x_hat.term) = t[2].ret.term
                 /\ c.genAfter.seed = c.genBefore.seed
                 /\ c.genAfter.offset = c.genBefore.offset + 1
                      + (IF c.self.training
                         THEN Cardinality(DropoutStages(c.self.decoder)) ELSE 0)

\* Two forward calls have returned, the second decoding a z other than the
\* first one's.
C4_Witness ==
    /\ Len(calls) = 2
    /\ \A k \in Logged : IsForward(calls[k]) /\ Returned(calls[k])
    /\ calls[1].arg = calls[2].arg
    /\ calls[1].trace[2].ret # calls[2].trace[2].ret

----------------------------------------------------------------------------
(* C5 *)

\* C5: two training-mode forward calls on the same x with the same learnable
\* parameters return the same mean and the same logvar, and each builds its z
\* on the noise at the generator position the call found, leaving the
\* generator advanced.
C5_SameMeanFreshNoise ==
    \A i \in Logged : \A j \in Logged :
        LET c == calls[i]
            d == calls[j]
        IN  (/\ i < j
             /\ IsForward(c) /\ IsForward(d)
             /\ c.self.training /\ d.self.training
             /\ c.arg = d.arg
             /\ Learnable(c.self) = Learnable(d.self)
             /\ Returned(c)) =>
            /\ Returned(d)
            /\ d.out.mean = c.out.mean
            /\ d.out.logvar = c.out.logvar
            /\ c.trace[2].ret.term.op = "add" /\ d.trace[2].ret.term.op = "add"
            /\ c.trace[2].ret.term.b.b = Draw("randn", c.genBefore)
            /\ d.trace[2].ret.term.b.b = Draw("randn", d.genBefore)
            /\ c.genAfter.offset > c.genBefore.offset
            /\ d.genAfter.offset > d.genBefore.offset

\* Two such calls have returned with different z and different x_hat.
C5_Witness ==
    /\ Len(calls) = 2
    /\ \A k \in Logged : IsForward(calls[k]) /\ calls[k].self.training /\ Returned(calls[k])
    /\ calls[1].arg = calls[2].arg
    /\ Learnable(calls[1].self) = Learnable(calls[2].self)
    /\ calls[1].out.mean = calls[2].out.mean
    /\ calls[1].trace[2].ret # calls[2].trace[2].ret
    /\ calls[1].out.x_hat # calls[2].out.x_hat

----------------------------------------------------------------------------
(* C6 *)

\* What a call that ran the decoder returned from it.
Decoded(c) == IF IsForward(c) THEN c.out.x_hat ELSE c.out

RanDecoder(c) == c.method \in {"forward", "decode"} /\ Returned(c)

\* A batch a layer accepts, to compare the layer across the two modes.
Probe(m) ==
    Input("probe", <<2, IF m.kind = "Linear" THEN m.in_features ELSE 1>>, "real")

\* C6: the decoder's four hidden stages, and no other place, hold a dropout of
\* p = 1/10; a decoder run masks (and draws from the generator) exactly when
\* the instance is training; in inference mode decode is a function of z and
\* the instance; no layer but dropout and normalization depends on the mode.
C6_DropoutOnlyInTraining ==
    vae.constructed =>
    /\ DropoutStages(vae.decoder) = {4, 8, 12, 16}
    /\ \A i \in DropoutStages(vae.decoder) : vae.decoder[i].p = <<1, 10>>
    /\ DropoutStages(vae.encoder) = {}
    /\ vae.mean_layer.kind = "Linear" /\ vae.logvar_layer.kind = "Linear"
    /\ \A k \in Logged :
         LET c == calls[k] IN
         /\ RanDecoder(c) => (HasDropout(Decoded(c).term) <=> c.self.training)
         /\ (c.method = "decode" /\ Returned(c)) =>
               c.genAfter.offset - c.genBefore.offset
                 = (IF c.self.training THEN Cardinality(DropoutStages(c.self.decoder)) ELSE 0)
         /\ (IsForward(c) /\ Returned(c)) => ~HasDropout(c.out.mean.term)
    /\ \A i \in Logged : \A j \in Logged :
         (/\ calls[i].method = "decode" /\ calls[j].method = "decode"
          /\ ~calls[i].self.training /\ ~calls[j].self.training
          /\ calls[i].arg = calls[j].arg
          /\ calls[i].self = calls[j].self) => calls[i].out = calls[j].out
    /\ \A i \in 1..Len(Modules(vae)) :
         LET m == Modules(vae)[i] IN
         m.kind \notin {"Dropout", "BatchNorm1d"} =>
            ApplyLayer(m, Probe(m), TRUE, generator) = ApplyLayer(m, Probe(m), FALSE, generator)

\* decode has returned once in training mode, masked, and once in inference
\* mode, unmasked.
C6_Witness ==
    /\ Len(calls) = 2
    /\ calls[1].method = "decode" /\ calls[1].self.training /\ Returned(calls[1])
    /\ HasDropout(calls[1].out.term)
    /\ calls[2].method = "decode" /\ ~calls[2].self.training /\ Returned(calls[2])
    /\ ~HasDropout(calls[2].out.term)
    /\ calls[2].genAfter = calls[2].genBefore

----------------------------------------------------------------------------
(* C7 *)

\* C7: no method is called before construction; once constructed, the
\* initialization has run exactly once, whatever was called since; each of the
\* eleven linear layers (4 encoder, mean_layer, logvar_layer, 5 decoder) holds
\* a Xavier-uniform weight of its own fan-in and fan-out and a zero bias, the
\* optimizer's steps apart; each normalization layer keeps scale 1, shift 0.
C7_InitializedOnce ==
    /\ ~vae.constructed => calls = <<>>
    /\ vae.constructed =>
         /\ vae.init_runs = 1
         /\ Cardinality(LinearStages(vae)) = 11
         /\ Cardinality({i \in 1..Len(vae.encoder) : vae.encoder[i].kind = "Linear"}) = 4
         /\ Cardinality({i \in 1..Len(vae.decoder) : vae.decoder[i].kind = "Linear"}) = 5
         /\ \A i \in LinearStages(vae) :
              LET m == Modules(vae)[i] IN
              /\ m.weight.init = "xavier_uniform"
              /\ m.weight.fan_in = m.in_features /\ m.weight.fan_out = m.out_features
              /\ m.bias.init = "zeros"
              /\ calls = <<>> => (m.weight.step = 0 /\ m.bias.step = 0)
         /\ \A i \in NormStages(vae) :
              LET m == Modules(vae)[i] IN
              /\ m.weight.init = "ones" /\ m.bias.init = "zeros"
              /\ calls = <<>> => (m.weight = Param("ones", 0) /\ m.bias = Param("zeros", 0))

\* The instance has served its calls and an optimizer step, still on its one
\* initialization.
C7_Witness ==
    /\ vae.constructed
    /\ Len(calls) = 2
    /\ vae.mean_layer.weight.step = 1
    /\ vae.init_runs = 1

----------------------------------------------------------------------------
(* C8 *)

StatsNaNIn(layers) ==
    \E i \in 1..Len(layers) :
        /\ layers[i].kind = "BatchNorm1d"
        /\ layers[i].running_mean.nan \/ layers[i].running_var.nan

\* A NaN reaches the decoder's last stage: one given in the batch, or, in
\* inference mode, one held by the running statistics on the way.
NaNReachesOutput(c) ==
    \/ c.arg.range = "nan"
    \/ /\ ~c.self.training
       /\ StatsNaNIn(IF IsForward(c) THEN Modules(c.self) ELSE c.self.decoder)

----------------------------------------------------------------------------
(* C9 *)

DirectoriesNames ==
    {"PROJECT_ROOT", "TEN_K_DATASET", "TEN_K_DATASET_PHYLOGROUPS", "TEN_K_DATASET_METADATA",
     "PAPER_ESSENTIAL_GENES", "ESSENTIAL_GENES_POSITIONS", "MINIMIZED_GENOME",
     "WILD_TYPE_SEQUENCE", "DATA_DIR"}

\* C9: once the path constants module has been imported, each of its nine
\* names is bound, and DATA_DIR is PROJECT_ROOT followed by "/data/".
C9_DirectoriesBindsNames ==
    directories.status # "unloaded" =>
        /\ directories.status = "loaded"
        /\ DirectoriesNames \subseteq DOMAIN directories.globals
        /\ directories.globals["DATA_DIR"] = <<directories.globals["PROJECT_ROOT"], "/data/">>

----------------------------------------------------------------------------
(* C10 *)

\* C10: a reparameterization call leaves the instance as it found it and
\* returns mean + exp(0.5 * logvar) * epsilon, of the shape of its arguments,
\* epsilon being the generator's draw: the mode and the parameters have no
\* part in it, and a logged call with the same arguments and the same
\* epsilon returned the same z.
C10_ReparameterizationPure ==
    [][(Len(calls') > Len(calls) /\ calls'[Len(calls')].method = "reparameterization") =>
         LET c == calls'[Len(calls')] IN
         /\ vae' = vae
         /\ Returned(c)
         /\ c.out.shape = c.arg[1].shape
         /\ c.out.term = SampleTerm(c.arg[1], c.arg[2], Draw("randn", generator))
         /\ \A i \in Logged :
              (/\ calls[i].method = "reparameterization"
               /\ calls[i].arg = c.arg
               /\ calls[i].genBefore = c.genBefore) => calls[i].out = c.out]_vars

\* With the generator seeded alike before each, a call in training mode and a
\* call in inference mode on the same arguments returned the same z.
C10_Witness ==
    /\ Len(calls) = 2
    /\ \A k \in Logged : calls[k].method = "reparameterization" /\ Returned(calls[k])
    /\ calls[1].arg = calls[2].arg
    /\ calls[1].genBefore = calls[2].genBefore
    /\ calls[1].self.training /\ ~calls[2].self.training
    /\ calls[1].out = calls[2].out

====
